---- MODULE Spec2Model ----
(***************************************************************************)
(* Model of pkg/providers/aws/cluster_vpc.go: the cluster VPC locator      *)
(* (getVpc, GetCidr, GetVPCSubnets, GetAllSubnetIDS, GetPrivateSubnetIDS), *)
(* the subnet poll (getSubnets) and the security group convergence         *)
(* (SetupSecurityGroup, getSecurityGroup), run against an EC2 provider     *)
(* whose state is the VPC listing, the subnet listing and the security     *)
(* group listing.                                                          *)
(***************************************************************************)
EXTENDS Integers, Sequences, FiniteSets, TLC

\* ------------------------------------------------------------- bounds
MaxVpcs == 2
MaxGroups == 2
MaxPerms == 2
MaxSubnets == 2

Procs == {1, 2}

\* ------------------------------------------------------------- values
defaultSecurityGroupPostfix == "security-group"

\* the clusters whose resources the provider holds, and the one reconciled
Clusters == {"foo", "bar"}
ClusterIDs == {"bar"}

CidrA == "10.0.0.0/16"
CidrB == "10.0.1.0/16"
CidrWide == "10.0.0.0/8"
VpcCidrs == {CidrA, CidrB}

Tag(v) == [Key |-> "Name", Value |-> v]
TagLists == {<<>>, <<Tag("foo-vpc")>>, <<Tag("bar-vpc")>>,
             <<Tag("foo-vpc"), Tag("bar-vpc")>>}

\* the tags a subnet may carry
SubnetTag(k, v) == [Key |-> k, Value |-> v]
SubnetTagLists ==
  {<<SubnetTag("Name", "cluster-public-a"), SubnetTag("access", "Private")>>,
   <<SubnetTag("Name", "cluster-public-a"), SubnetTag("access", "private")>>,
   <<SubnetTag("Name", "cluster-private-a"), SubnetTag("access", "private")>>,
   <<SubnetTag("Name", "cluster-nonprivate-a")>>}

NilVpc == [VpcId |-> 0, CidrBlock |-> "", Tags |-> <<>>]
NilGroup == [GroupId |-> 0, GroupName |-> "", VpcId |-> 0, IpPermissions |-> <<>>]

\* ec2.IpPermission: IpProtocol, IpRanges and the port, <<>> standing for a
\* nil pointer
IpPermission(proto, cidrs, port) ==
  [IpProtocol |-> proto,
   IpRanges |-> [i \in 1..Len(cidrs) |-> [CidrIp |-> cidrs[i]]],
   FromPort |-> port]

ExistingPermissions ==
  {IpPermission("-1", <<CidrA>>, <<>>), IpPermission("-1", <<CidrB>>, <<>>),
   IpPermission("-1", <<CidrA, CidrB>>, <<>>),
   IpPermission("-1", <<CidrWide>>, <<>>),
   IpPermission("tcp", <<CidrA>>, <<5432>>)}

\* wait.PollImmediate(time.Second*5, time.Minute*5, ...), in seconds
PollInterval == 5
PollTimeout == 300

\* errors are chains of messages, outermost first; <<>> is the nil error
NoError == <<>>
New(msg) == <<msg>>
Wrap(err, msg) == <<msg>> \o err
ErrProvider == New("provider request failed")
ErrClusterID == New("cluster id unavailable")
ErrInfraName == New("infra name unavailable")
ErrWaitTimeout == New("timed out waiting for the condition")

SeqsUpTo(S, n) == UNION {[1..k -> S] : k \in 0..n}

VARIABLES
  callers,        \* the callers that invoke operations
  clusterID,      \* the cluster identity resources.GetClusterID returns
  vpcs,           \* provider: DescribeVpcs listing
  subnets,        \* provider: DescribeSubnets listing
  secGroups,      \* provider: DescribeSecurityGroups listing
  pc,             \* per caller: position in the running operation
  op,             \* per caller: the running operation
  foundVPC,       \* per caller: the VPC GetCidr / getVpc returned
  subs,           \* per caller: the subnets getSubnets returned
  foundSecGroup,  \* per caller: the group getSecurityGroup returned
  calls,          \* per caller: provider calls of the running operation, in order
  started,        \* per caller: what held when its running operation started
  last,           \* the operation, or provider change, that has just completed
  nCreated,       \* number of CreateSecurityGroup calls that succeeded
  ctxDone,        \* per caller: the context it passed was already done
  waited          \* per caller: seconds its subnet poll has waited

vars == <<callers, clusterID, vpcs, subnets, secGroups, pc, op, foundVPC, subs,
          foundSecGroup, calls, started, last, nCreated, ctxDone, waited>>

provider == <<vpcs, subnets, secGroups>>

\* ------------------------------------------------------------- getVpc
VpcTagValue(id) == id \o "-vpc"

TagMatches(vpc, id) ==
  \E t \in 1..Len(vpc.Tags) : vpc.Tags[t].Value = VpcTagValue(id)

\* faulty variant: the scan stops at the first VPC that matches
RECURSIVE ScanVpcsFirstMatch(_, _, _, _)
ScanVpcsFirstMatch(list, id, i, found) ==
  IF i > Len(list) THEN found
  ELSE IF TagMatches(list[i], id) THEN list[i]
  ELSE ScanVpcsFirstMatch(list, id, i + 1, found)

RECURSIVE ScanVpcs(_, _, _, _)
ScanVpcs(list, id, i, found) ==
  IF i > Len(list) THEN found
  ELSE ScanVpcs(list, id, i + 1, IF TagMatches(list[i], id) THEN list[i] ELSE found)

\* faulty variant: with no matching VPC, the first VPC of the listing is returned
getVpcFallback(list, id, listOk, idOk) ==
  IF ~listOk THEN [vpc |-> NilVpc, err |-> Wrap(ErrProvider, "error getting subnets")]
  ELSE IF ~idOk THEN [vpc |-> NilVpc, err |-> Wrap(ErrClusterID, "error getting clusterID")]
  ELSE LET foundVpc == ScanVpcs(list, id, 1, IF list = <<>> THEN NilVpc ELSE list[1])
       IN IF foundVpc = NilVpc
          THEN [vpc |-> NilVpc, err |-> New("error, no vpc found")]
          ELSE [vpc |-> foundVpc, err |-> NoError]

getVpc(list, id, listOk, idOk) ==
  IF ~listOk THEN [vpc |-> NilVpc, err |-> Wrap(ErrProvider, "error getting subnets")]
  ELSE IF ~idOk THEN [vpc |-> NilVpc, err |-> Wrap(ErrClusterID, "error getting clusterID")]
  ELSE LET foundVpc == ScanVpcs(list, id, 1, NilVpc)
       IN IF foundVpc = NilVpc
          THEN [vpc |-> NilVpc, err |-> New("error, no vpc found")]
          ELSE [vpc |-> foundVpc, err |-> NoError]

GetCidr(list, id, listOk, idOk) ==
  LET r == getVpc(list, id, listOk, idOk)
  IN IF r.err # NoError
     THEN [vpcID |-> 0, cidr |-> "", err |-> Wrap(r.err, "error getting vpcs")]
     ELSE IF r.vpc = NilVpc
     THEN [vpcID |-> 0, cidr |-> "", err |-> New("error, unable to find a vpc")]
     ELSE [vpcID |-> r.vpc.VpcId, cidr |-> r.vpc.CidrBlock, err |-> NoError]

\* ------------------------------------------------------------- getSecurityGroup
BuildInfraName(id, postfix) == id \o "-" \o postfix

SecName == BuildInfraName(clusterID, defaultSecurityGroupPostfix)

RECURSIVE FirstNamed(_, _, _)
FirstNamed(groups, name, i) ==
  IF i > Len(groups) THEN NilGroup
  ELSE IF groups[i].GroupName = name THEN groups[i]
  ELSE FirstNamed(groups, name, i + 1)

\* faulty variant: the scan of the listing skips its first group
getSecurityGroupSkipFirst(groups, name) == FirstNamed(groups, name, 2)

getSecurityGroup(groups, name) == FirstNamed(groups, name, 1)

\* faulty variant: the two permissions are compared as pointers, never equal
DeepEqualPointers(perm, ipPermission) == FALSE

\* faulty variant: permissions of the same protocol count as equal
DeepEqualProtocol(perm, ipPermission) == perm.IpProtocol = ipPermission.IpProtocol

DeepEqual(perm, ipPermission) == perm = ipPermission

\* faulty variant: the permission is built for TCP only
DesiredPermissionTcp(cidr) == IpPermission("tcp", <<cidr>>, <<>>)

DesiredPermission(cidr) == IpPermission("-1", <<cidr>>, <<>>)

\* faulty variant: only the group's first permission is looked at
PermissionsCorrectFirstOnly(group, cidr) ==
  /\ Len(group.IpPermissions) >= 1
  /\ DeepEqual(group.IpPermissions[1], DesiredPermission(cidr))

PermissionsCorrect(group, cidr) ==
  \E i \in 1..Len(group.IpPermissions) :
    DeepEqual(group.IpPermissions[i], DesiredPermission(cidr))

\* ------------------------------------------------------------- provider
\* requests, as the provider receives them
Request(api) ==
  [api |-> api, Description |-> "", GroupName |-> "", VpcId |-> 0,
   GroupId |-> 0, IpPermissions |-> <<>>]

\* a call: the request and whether the provider served it
Call(request, ok) ==
  [api |-> request.api, Description |-> request.Description,
   GroupName |-> request.GroupName, VpcId |-> request.VpcId,
   GroupId |-> request.GroupId, IpPermissions |-> request.IpPermissions,
   ok |-> ok]

\* faulty variant: the request names no VPC
CreateSecurityGroupInputNoVpc(id, secName, vpcID) ==
  [Request("CreateSecurityGroup") EXCEPT
     !.Description = "security group for cluster " \o id,
     !.GroupName = secName]

CreateSecurityGroupInput(id, secName, vpcID) ==
  [Request("CreateSecurityGroup") EXCEPT
     !.Description = "security group for cluster " \o id,
     !.GroupName = secName,
     !.VpcId = vpcID]

AuthorizeSecurityGroupIngressInput(group, ipPermission) ==
  [Request("AuthorizeSecurityGroupIngress") EXCEPT
     !.GroupId = group.GroupId,
     !.IpPermissions = <<ipPermission>>]

Mutating(call) ==
  call.api \in {"CreateSecurityGroup", "AuthorizeSecurityGroupIngress"}

\* EC2 CreateSecurityGroup: a new group, owned by the VPC asked for, with no
\* ingress permission
CreateSecurityGroup(groups, input) ==
  Append(groups, [GroupId |-> Len(groups) + 1, GroupName |-> input.GroupName,
                  VpcId |-> input.VpcId, IpPermissions |-> <<>>])

\* EC2 AuthorizeSecurityGroupIngress: the permissions are added to the group
AuthorizeSecurityGroupIngress(groups, input) ==
  [i \in 1..Len(groups) |->
     IF groups[i].GroupId = input.GroupId
     THEN [groups[i] EXCEPT !.IpPermissions = @ \o input.IpPermissions]
     ELSE groups[i]]

GroupById(groups, id) ==
  LET S == {i \in 1..Len(groups) : groups[i].GroupId = id}
  IN IF S = {} THEN NilGroup ELSE groups[CHOOSE i \in S : TRUE]

\* ------------------------------------------------------------- state
VpcCidrOf(i) == IF i % 2 = 1 THEN CidrA ELSE CidrB

InitVpcs ==
  UNION {{[i \in 1..k |-> [VpcId |-> i, CidrBlock |-> VpcCidrOf(i), Tags |-> t[i]]] :
            t \in [1..k -> TagLists]} : k \in 0..MaxVpcs}

\* every VPC but the first owns one subnet
InitSubnets(nVpcs) ==
  [i \in 1..(nVpcs - 1) |-> [SubnetId |-> i, VpcId |-> i + 1, Tags |-> <<>>]]

GroupNames == {BuildInfraName(id, defaultSecurityGroupPostfix) : id \in Clusters}

InitGroups(nVpcs) ==
  {<<>>} \cup
  {<<[GroupId |-> 1, GroupName |-> n, VpcId |-> v, IpPermissions |-> ps]>> :
     n \in GroupNames, v \in 1..nVpcs, ps \in SeqsUpTo(ExistingPermissions, 1)}

NotStarted == [converged |-> FALSE, after |-> "none"]

NoOperation ==
  [op |-> "none", val |-> <<>>, err |-> NoError, calls |-> <<>>, vpc |-> NilVpc,
   sg |-> NilGroup, started |-> NotStarted]

Created(r) ==
  \E i \in 1..Len(r.calls) : r.calls[i].api = "CreateSecurityGroup"

\* what the operation that has just completed was, for the one started next
After(r) ==
  IF r.op = "SetupSecurityGroup" /\ r.err = NoError
  THEN (IF Created(r) THEN "created" ELSE "settled")
  ELSE "other"

\* the VPCs carrying a tag whose value is "<clusterID>-vpc", by position
Matching ==
  {i \in 1..Len(vpcs) :
     \E t \in 1..Len(vpcs[i].Tags) : vpcs[i].Tags[t].Value = clusterID \o "-vpc"}

Max(S) == CHOOSE x \in S : \A y \in S : y <= x
Min(S) == CHOOSE x \in S : \A y \in S : x <= y

CanonicalVpc == IF Matching = {} THEN NilVpc ELSE vpcs[Max(Matching)]

\* the groups of the derived name, by position
Named == {i \in 1..Len(secGroups) : secGroups[i].GroupName = SecName}

NamedGroup == IF Named = {} THEN NilGroup ELSE secGroups[Min(Named)]

\* all protocols, from the one range cidr
WantedPermission(cidr) ==
  [IpProtocol |-> "-1", IpRanges |-> <<[CidrIp |-> cidr]>>, FromPort |-> <<>>]

\* the security posture is converged: the group of the derived name exists
\* and holds the wanted permission for the cluster VPC's CIDR block
Converged ==
  /\ CanonicalVpc # NilVpc
  /\ NamedGroup # NilGroup
  /\ \E i \in 1..Len(NamedGroup.IpPermissions) :
       NamedGroup.IpPermissions[i] = WantedPermission(CanonicalVpc.CidrBlock)

Idle(p) == pc[p] = "idle"
Running == {p \in Procs : ~Idle(p)}
Sequential == Cardinality(Running) <= 1

\* no operation has been invoked yet
IdleState ==
  /\ pc = [p \in Procs |-> "idle"]
  /\ op = [p \in Procs |-> "none"]
  /\ foundVPC = [p \in Procs |-> NilVpc]
  /\ subs = [p \in Procs |-> <<>>]
  /\ foundSecGroup = [p \in Procs |-> NilGroup]
  /\ calls = [p \in Procs |-> <<>>]
  /\ started = [p \in Procs |-> NotStarted]
  /\ last = NoOperation
  /\ nCreated = 0
  /\ ctxDone = [p \in Procs |-> FALSE]
  /\ waited = [p \in Procs |-> 0]

InitState ==
  /\ clusterID \in ClusterIDs
  /\ vpcs \in InitVpcs
  /\ subnets = InitSubnets(Len(vpcs))
  /\ secGroups \in InitGroups(Len(vpcs))
  /\ IdleState

\* one caller: operations run one after the other
Init == callers = {1} /\ InitState

\* two callers, whose operations may overlap, and no group to begin with
ConcInit == callers = Procs /\ InitState /\ secGroups = <<>>

\* VPC listings in which every VPC carries one tag
LocVpcs == {l \in InitVpcs : \A i \in 1..Len(l) : Len(l[i].Tags) = 1}

\* subnet listings: each subnet is owned by the VPC of the first or of the
\* last id, whatever its tags
LocSubnets ==
  UNION {{[i \in 1..k |-> [SubnetId |-> i, VpcId |-> v[i], Tags |-> t[i]]] :
            v \in [1..k -> {1, MaxVpcs}], t \in [1..k -> SubnetTagLists]} :
         k \in 0..MaxSubnets}

\* one caller of the locator operations, over any subnet listing
LocInit ==
  /\ callers = {1}
  /\ clusterID \in ClusterIDs
  /\ vpcs \in LocVpcs
  /\ subnets \in LocSubnets
  /\ secGroups = <<>>
  /\ IdleState

\* one caller of GetVPCSubnets, no subnet listed yet
PollInit ==
  /\ callers = {1}
  /\ clusterID \in ClusterIDs
  /\ vpcs \in LocVpcs
  /\ subnets = <<>>
  /\ secGroups = <<>>
  /\ IdleState

CanStart(p) == p \in callers /\ Idle(p)

\* caller p, running o, goes on at label having issued the provider calls cs
Goto(p, o, label, cs) ==
  /\ pc' = [pc EXCEPT ![p] = label]
  /\ op' = [op EXCEPT ![p] = o]
  /\ calls' = [calls EXCEPT ![p] = @ \o cs]
  /\ UNCHANGED <<started, last>>

\* the operation o of caller p returns (val, err) having issued the provider
\* calls cs; sg is the security group it acted on
Return(p, o, val, err, cs, sg) ==
  /\ pc' = [pc EXCEPT ![p] = "idle"]
  /\ op' = [op EXCEPT ![p] = "none"]
  /\ foundVPC' = [foundVPC EXCEPT ![p] = NilVpc]
  /\ subs' = [subs EXCEPT ![p] = <<>>]
  /\ foundSecGroup' = [foundSecGroup EXCEPT ![p] = NilGroup]
  /\ calls' = [calls EXCEPT ![p] = <<>>]
  /\ started' = [started EXCEPT ![p] = NotStarted]
  /\ last' = [op |-> o, val |-> val, err |-> err, calls |-> calls[p] \o cs,
              vpc |-> foundVPC[p], sg |-> sg, started |-> started[p]]

\* ------------------------------------------------------------- SetupSecurityGroup
\* lines 27-39: cluster id and security group name
SetupSecurityGroupBegin(p, idOk, nameOk) ==
  /\ CanStart(p)
  /\ IF ~idOk
     THEN Return(p, "SetupSecurityGroup", <<>>,
                 Wrap(ErrClusterID, "error getting cluster id"), <<>>, NilGroup)
     ELSE IF ~nameOk
     THEN Return(p, "SetupSecurityGroup", <<>>,
                 Wrap(ErrInfraName, "error building subnet group name"), <<>>, NilGroup)
     ELSE /\ pc' = [pc EXCEPT ![p] = "GetCidr"]
          /\ op' = [op EXCEPT ![p] = "SetupSecurityGroup"]
          /\ started' = [started EXCEPT ![p] =
                            [converged |-> Converged, after |-> After(last)]]
          /\ last' = NoOperation
          /\ UNCHANGED <<foundVPC, subs, foundSecGroup, calls>>
  /\ UNCHANGED <<callers, ctxDone, waited, clusterID, provider, nCreated>>

\* lines 41-45: the cluster VPC and its CIDR block
SetupGetCidr(p, listOk, idOk) ==
  /\ pc[p] = "GetCidr" /\ op[p] = "SetupSecurityGroup"
  /\ LET r == GetCidr(vpcs, clusterID, listOk, idOk)
     IN IF r.err # NoError
        THEN Return(p, "SetupSecurityGroup", <<>>,
                    Wrap(r.err, "error finding cidr block"),
                    <<Call(Request("DescribeVpcs"), listOk)>>, NilGroup)
        ELSE /\ Goto(p, "SetupSecurityGroup", "getSecurityGroup",
                     <<Call(Request("DescribeVpcs"), listOk)>>)
             /\ foundVPC' = [foundVPC EXCEPT ![p] =
                               [VpcId |-> r.vpcID, CidrBlock |-> r.cidr, Tags |-> <<>>]]
             /\ UNCHANGED <<subs, foundSecGroup>>
  /\ UNCHANGED <<callers, ctxDone, waited, clusterID, provider, nCreated>>

\* faulty variant: a failed group listing is taken for "no such group"
SetupGetSecurityGroupLenient(p, listOk) ==
  /\ pc[p] = "getSecurityGroup" /\ op[p] = "SetupSecurityGroup"
  /\ Goto(p, "SetupSecurityGroup", "CreateSecurityGroup",
          <<Call(Request("DescribeSecurityGroups"), listOk)>>)
  /\ UNCHANGED <<foundVPC, subs, foundSecGroup>>
  /\ UNCHANGED <<callers, ctxDone, waited, clusterID, provider, nCreated>>

\* lines 47-81: look the group up by name, then scan its permissions
SetupGetSecurityGroup(p, listOk) ==
  /\ pc[p] = "getSecurityGroup" /\ op[p] = "SetupSecurityGroup"
  /\ IF ~listOk
     THEN Return(p, "SetupSecurityGroup", <<>>,
                 Wrap(Wrap(ErrProvider, "failed to return information about security groups"),
                      "error get security group"),
                 <<Call(Request("DescribeSecurityGroups"), listOk)>>, NilGroup)
     ELSE LET found == getSecurityGroup(secGroups, SecName)
          IN IF found = NilGroup
             THEN /\ Goto(p, "SetupSecurityGroup", "CreateSecurityGroup",
                          <<Call(Request("DescribeSecurityGroups"), listOk)>>)
                  /\ UNCHANGED <<foundVPC, subs, foundSecGroup>>
             ELSE IF PermissionsCorrect(found, foundVPC[p].CidrBlock)
             THEN Return(p, "SetupSecurityGroup", <<>>, NoError,
                         <<Call(Request("DescribeSecurityGroups"), listOk)>>, found)
             ELSE /\ Goto(p, "SetupSecurityGroup", "AuthorizeSecurityGroupIngress",
                          <<Call(Request("DescribeSecurityGroups"), listOk)>>)
                  /\ foundSecGroup' = [foundSecGroup EXCEPT ![p] = found]
                  /\ UNCHANGED <<foundVPC, subs>>
  /\ UNCHANGED <<callers, ctxDone, waited, clusterID, provider, nCreated>>

\* faulty variant: a failed create is tried again
SetupCreateSecurityGroupRetrying(p, ok) ==
  /\ pc[p] = "CreateSecurityGroup" /\ op[p] = "SetupSecurityGroup"
  /\ LET input == CreateSecurityGroupInput(clusterID, SecName, foundVPC[p].VpcId)
     IN IF ok
        THEN /\ Len(secGroups) < MaxGroups
             /\ secGroups' = CreateSecurityGroup(secGroups, input)
             /\ nCreated' = nCreated + 1
             /\ Return(p, "SetupSecurityGroup", <<>>, NoError, <<Call(input, ok)>>, NilGroup)
        ELSE /\ Len(calls[p]) < 4
             /\ Goto(p, "SetupSecurityGroup", "CreateSecurityGroup", <<Call(input, ok)>>)
             /\ UNCHANGED <<secGroups, nCreated, foundVPC, subs, foundSecGroup>>
  /\ UNCHANGED <<callers, ctxDone, waited, clusterID, vpcs, subnets>>

\* lines 52-63: create the group and return
SetupCreateSecurityGroup(p, ok) ==
  /\ pc[p] = "CreateSecurityGroup" /\ op[p] = "SetupSecurityGroup"
  /\ LET input == CreateSecurityGroupInput(clusterID, SecName, foundVPC[p].VpcId)
     IN IF ok
        THEN /\ Len(secGroups) < MaxGroups
             /\ secGroups' = CreateSecurityGroup(secGroups, input)
             /\ nCreated' = nCreated + 1
             /\ Return(p, "SetupSecurityGroup", <<>>, NoError, <<Call(input, ok)>>, NilGroup)
        ELSE /\ UNCHANGED <<secGroups, nCreated>>
             /\ Return(p, "SetupSecurityGroup", <<>>,
                       Wrap(ErrProvider, "error creating security group"),
                       <<Call(input, ok)>>, NilGroup)
  /\ UNCHANGED <<callers, ctxDone, waited, clusterID, vpcs, subnets>>

\* faulty variant: the group's permissions are replaced by the desired one
SetupAuthorizeIngressReplacing(p, ok) ==
  /\ pc[p] = "AuthorizeSecurityGroupIngress" /\ op[p] = "SetupSecurityGroup"
  /\ LET input == AuthorizeSecurityGroupIngressInput(foundSecGroup[p],
                    DesiredPermission(foundVPC[p].CidrBlock))
     IN /\ secGroups' = [i \in 1..Len(secGroups) |->
                           IF secGroups[i].GroupId = input.GroupId
                           THEN [secGroups[i] EXCEPT !.IpPermissions = input.IpPermissions]
                           ELSE secGroups[i]]
        /\ Return(p, "SetupSecurityGroup", <<>>, NoError, <<Call(input, ok)>>,
                  foundSecGroup[p])
  /\ UNCHANGED <<callers, ctxDone, waited, clusterID, vpcs, subnets, nCreated>>

\* lines 83-94: authorize the one missing ingress permission
SetupAuthorizeIngress(p, ok) ==
  /\ pc[p] = "AuthorizeSecurityGroupIngress" /\ op[p] = "SetupSecurityGroup"
  /\ LET input == AuthorizeSecurityGroupIngressInput(foundSecGroup[p],
                    DesiredPermission(foundVPC[p].CidrBlock))
     IN IF ok
        THEN /\ Len(GroupById(secGroups, input.GroupId).IpPermissions) < MaxPerms
             /\ secGroups' = AuthorizeSecurityGroupIngress(secGroups, input)
             /\ Return(p, "SetupSecurityGroup", <<>>, NoError, <<Call(input, ok)>>,
                       foundSecGroup[p])
        ELSE /\ secGroups' = secGroups
             /\ Return(p, "SetupSecurityGroup", <<>>,
                       Wrap(ErrProvider, "error authorizing security group ingress"),
                       <<Call(input, ok)>>, foundSecGroup[p])
  /\ UNCHANGED <<callers, ctxDone, waited, clusterID, vpcs, subnets, nCreated>>

\* ------------------------------------------------------------- GetCidr
\* lines 192-205, called on its own
GetCidrCall(p, listOk, idOk) ==
  /\ CanStart(p)
  /\ LET r == GetCidr(vpcs, clusterID, listOk, idOk)
     IN Return(p, "GetCidr", <<r.vpcID, r.cidr>>, r.err,
               <<Call(Request("DescribeVpcs"), listOk)>>, NilGroup)
  /\ UNCHANGED <<callers, ctxDone, waited, clusterID, provider, nCreated>>

\* ------------------------------------------------------------- GetVPCSubnets
\* faulty variant: the listing is returned unfiltered
AssociatedSubsAll(list, vpcID, i) == list

RECURSIVE AssociatedSubs(_, _, _)
AssociatedSubs(list, vpcID, i) ==
  IF i > Len(list) THEN <<>>
  ELSE (IF list[i].VpcId = vpcID THEN <<list[i]>> ELSE <<>>)
       \o AssociatedSubs(list, vpcID, i + 1)

\* lines 98-105: poll the subnet listing
GetVPCSubnetsBegin(p, pollOk) ==
  /\ CanStart(p)
  /\ IF ~pollOk
     THEN Return(p, "GetVPCSubnets", <<>>, Wrap(ErrWaitTimeout, "error getting subnets"),
                 <<Call(Request("DescribeSubnets"), pollOk)>>, NilGroup)
     ELSE /\ pc' = [pc EXCEPT ![p] = "getVpc"]
          /\ op' = [op EXCEPT ![p] = "GetVPCSubnets"]
          /\ calls' = [calls EXCEPT ![p] = <<Call(Request("DescribeSubnets"), pollOk)>>]
          /\ subs' = [subs EXCEPT ![p] = subnets]
          /\ last' = NoOperation
          /\ UNCHANGED <<foundVPC, foundSecGroup, started>>
  /\ UNCHANGED <<callers, ctxDone, waited, clusterID, provider, nCreated>>

\* lines 107-131: the cluster VPC, then the subnets it owns
GetVPCSubnetsFilter(p, listOk, idOk) ==
  /\ pc[p] = "getVpc" /\ op[p] = "GetVPCSubnets"
  /\ LET r == getVpc(vpcs, clusterID, listOk, idOk)
         associatedSubs == AssociatedSubs(subs[p], r.vpc.VpcId, 1)
     IN IF r.err # NoError
        THEN Return(p, "GetVPCSubnets", <<>>, Wrap(r.err, "error getting vpcs"),
                    <<Call(Request("DescribeVpcs"), listOk)>>, NilGroup)
        ELSE IF r.vpc = NilVpc
        THEN Return(p, "GetVPCSubnets", <<>>, New("error, unable to find a vpc"),
                    <<Call(Request("DescribeVpcs"), listOk)>>, NilGroup)
        ELSE IF associatedSubs = <<>>
        THEN Return(p, "GetVPCSubnets", <<>>,
                    New("error, unable to find subnets associated with cluster vpc"),
                    <<Call(Request("DescribeVpcs"), listOk)>>, NilGroup)
        ELSE Return(p, "GetVPCSubnets", associatedSubs, NoError,
                    <<Call(Request("DescribeVpcs"), listOk)>>, NilGroup)
  /\ UNCHANGED <<callers, ctxDone, waited, clusterID, provider, nCreated>>

\* lines 98-132 as one computation: the subnets, the error and the provider
\* calls made
GetVPCSubnets(list, vpcList, id, pollOk, listOk, idOk) ==
  LET poll == <<Call(Request("DescribeSubnets"), pollOk)>>
      both == poll \o <<Call(Request("DescribeVpcs"), listOk)>>
      r == getVpc(vpcList, id, listOk, idOk)
      associatedSubs == AssociatedSubs(list, r.vpc.VpcId, 1)
  IN IF ~pollOk
     THEN [subs |-> <<>>, err |-> Wrap(ErrWaitTimeout, "error getting subnets"),
           calls |-> poll]
     ELSE IF r.err # NoError
     THEN [subs |-> <<>>, err |-> Wrap(r.err, "error getting vpcs"), calls |-> both]
     ELSE IF r.vpc = NilVpc
     THEN [subs |-> <<>>, err |-> New("error, unable to find a vpc"), calls |-> both]
     ELSE IF associatedSubs = <<>>
     THEN [subs |-> <<>>,
           err |-> New("error, unable to find subnets associated with cluster vpc"),
           calls |-> both]
     ELSE [subs |-> associatedSubs, err |-> NoError, calls |-> both]

\* ------------------------------------------------------------- GetAllSubnetIDS
SubnetIds(list) == [i \in 1..Len(list) |-> list[i].SubnetId]

\* faulty variant: the subnets of other VPCs are deleted from the provider
GetAllSubnetIDSPruning(p, pollOk, listOk, idOk) ==
  /\ CanStart(p)
  /\ subnets' = AssociatedSubs(subnets, ScanVpcs(vpcs, clusterID, 1, NilVpc).VpcId, 1)
  /\ Return(p, "GetAllSubnetIDS", SubnetIds(subnets'), NoError,
            <<Call(Request("DeleteSubnet"), TRUE)>>, NilGroup)
  /\ UNCHANGED <<callers, ctxDone, waited, clusterID, vpcs, secGroups, nCreated>>

\* lines 135-153
GetAllSubnetIDS(p, pollOk, listOk, idOk) ==
  /\ CanStart(p)
  /\ LET r == GetVPCSubnets(subnets, vpcs, clusterID, pollOk, listOk, idOk)
         subIDs == SubnetIds(r.subs)
     IN IF r.err # NoError
        THEN Return(p, "GetAllSubnetIDS", <<>>, Wrap(r.err, "error getting vpc subnets"),
                    r.calls, NilGroup)
        ELSE IF subIDs = <<>>
        THEN Return(p, "GetAllSubnetIDS", <<>>, New("failed to get list of subnet ids"),
                    r.calls, NilGroup)
        ELSE Return(p, "GetAllSubnetIDS", subIDs, NoError, r.calls, NilGroup)
  /\ UNCHANGED <<callers, ctxDone, waited, clusterID, provider, nCreated>>

\* ------------------------------------------------------------- GetPrivateSubnetIDS
\* the characters \w stands for
WordChars ==
  {"a", "b", "c", "d", "e", "f", "g", "h", "i", "j", "k", "l", "m", "n", "o", "p",
   "q", "r", "s", "t", "u", "v", "w", "x", "y", "z",
   "A", "B", "C", "D", "E", "F", "G", "H", "I", "J", "K", "L", "M", "N", "O", "P",
   "Q", "R", "S", "T", "U", "V", "W", "X", "Y", "Z",
   "0", "1", "2", "3", "4", "5", "6", "7", "8", "9", "_"}

\* the literal of line 163's pattern
regexpLiteral == "private"

\* the character at position i of s is a word character
IsWordChar(s, i) == i \in 1..Len(s) /\ SubSeq(s, i, i) \in WordChars

\* \b holds before position i of s
WordBoundary(s, i) == IsWordChar(s, i - 1) # IsWordChar(s, i)

\* s[i..j] is of the form \w*private\w*
MatchesWord(s, i, j) ==
  /\ \A k \in i..j : IsWordChar(s, k)
  /\ \E k \in i..(j - Len(regexpLiteral) + 1) :
       SubSeq(s, k, k + Len(regexpLiteral) - 1) = regexpLiteral

\* anReg.MatchString(s) for the pattern \b(\w*private\w*)\b: some part of s
\* matches
MatchString(s) ==
  \E i \in 1..Len(s) : \E j \in i..Len(s) :
    /\ WordBoundary(s, i)
    /\ WordBoundary(s, j + 1)
    /\ MatchesWord(s, i, j)

\* lines 170-174: the subnet once for every tag of it that matches
RECURSIVE AppendPerTag(_, _)
AppendPerTag(sub, t) ==
  IF t > Len(sub.Tags) THEN <<>>
  ELSE (IF MatchString(sub.Tags[t].Value) THEN <<sub>> ELSE <<>>)
       \o AppendPerTag(sub, t + 1)

\* lines 168-176
RECURSIVE PrivateSubs(_, _)
PrivateSubs(list, i) ==
  IF i > Len(list) THEN <<>>
  ELSE AppendPerTag(list[i], 1) \o PrivateSubs(list, i + 1)

\* lines 156-189
GetPrivateSubnetIDS(p, pollOk, listOk, idOk) ==
  /\ CanStart(p)
  /\ LET r == GetVPCSubnets(subnets, vpcs, clusterID, pollOk, listOk, idOk)
         subIDs == SubnetIds(PrivateSubs(r.subs, 1))
     IN IF r.err # NoError
        THEN Return(p, "GetPrivateSubnetIDS", <<>>,
                    Wrap(r.err, "error getting vpc subnets"), r.calls, NilGroup)
        ELSE IF subIDs = <<>>
        THEN Return(p, "GetPrivateSubnetIDS", <<>>,
                    New("failed to get list of private subnet ids"), r.calls, NilGroup)
        ELSE Return(p, "GetPrivateSubnetIDS", subIDs, NoError, r.calls, NilGroup)
  /\ UNCHANGED <<callers, ctxDone, waited, clusterID, provider, nCreated>>

\* ------------------------------------------------------------- getSubnets
\* faulty variant: a served listing is kept, and the poll goes on
getSubnetsConditionKeepPolling(p, ok) ==
  /\ op' = [op EXCEPT ![p] = "GetVPCSubnets"]
  /\ calls' = [calls EXCEPT ![p] = @ \o <<Call(Request("DescribeSubnets"), ok)>>]
  /\ pc' = [pc EXCEPT ![p] = "poll"]
  /\ subs' = [subs EXCEPT ![p] = IF ok THEN subnets ELSE @]

\* lines 210-217, the condition of the poll: one DescribeSubnets call; a
\* failure is not reported and leaves the poll going, a listing ends it
getSubnetsCondition(p, ok) ==
  /\ op' = [op EXCEPT ![p] = "GetVPCSubnets"]
  /\ calls' = [calls EXCEPT ![p] = @ \o <<Call(Request("DescribeSubnets"), ok)>>]
  /\ pc' = [pc EXCEPT ![p] = IF ok THEN "getVpc" ELSE "poll"]
  /\ subs' = [subs EXCEPT ![p] = IF ok THEN subnets ELSE @]

\* lines 98-102 and 210: GetVPCSubnets enters getSubnets, which is not handed
\* the context; PollImmediate calls the condition at once
GetVPCSubnetsPoll(p, done, ok) ==
  /\ CanStart(p)
  /\ ctxDone' = [ctxDone EXCEPT ![p] = done]
  /\ waited' = [waited EXCEPT ![p] = 0]
  /\ getSubnetsCondition(p, ok)
  /\ last' = NoOperation
  /\ UNCHANGED <<callers, clusterID, provider, nCreated, foundVPC, foundSecGroup,
                 started>>

\* faulty variant: the condition is called again without waiting
getSubnetsTickBusy(p, ok) ==
  /\ pc[p] = "poll" /\ op[p] = "GetVPCSubnets"
  /\ Len(calls[p]) <= PollTimeout \div PollInterval
  /\ getSubnetsCondition(p, ok)
  /\ UNCHANGED <<callers, ctxDone, waited, clusterID, provider, nCreated, foundVPC,
                 foundSecGroup, started, last>>

\* line 210: an interval has passed within the budget, the condition is
\* called again
getSubnetsTick(p, ok) ==
  /\ pc[p] = "poll" /\ op[p] = "GetVPCSubnets"
  /\ waited[p] + PollInterval <= PollTimeout
  /\ waited' = [waited EXCEPT ![p] = @ + PollInterval]
  /\ getSubnetsCondition(p, ok)
  /\ UNCHANGED <<callers, ctxDone, clusterID, provider, nCreated, foundVPC,
                 foundSecGroup, started, last>>

\* lines 210 and 218-220: the budget has run out; whether the condition is
\* called a last time is the library's choice; with no listing the poll's
\* error is returned
getSubnetsTimeout(p, again, ok) ==
  /\ pc[p] = "poll" /\ op[p] = "GetVPCSubnets"
  /\ waited[p] + PollInterval >= PollTimeout
  /\ waited' = [waited EXCEPT ![p] = PollTimeout]
  /\ IF again /\ ok
     THEN /\ getSubnetsCondition(p, ok)
          /\ UNCHANGED <<foundVPC, foundSecGroup, started, last>>
     ELSE Return(p, "GetVPCSubnets", <<>>, Wrap(ErrWaitTimeout, "error getting subnets"),
                 IF again THEN <<Call(Request("DescribeSubnets"), ok)>> ELSE <<>>,
                 NilGroup)
  /\ UNCHANGED <<callers, ctxDone, clusterID, provider, nCreated>>

\* ------------------------------------------------------------- environment
\* between operations the cluster's VPC may be given another CIDR block
ModifyVpcCidr(i, c) ==
  /\ \A p \in Procs : Idle(p)
  /\ i \in Matching
  /\ i = Max(Matching)
  /\ vpcs[i].CidrBlock # c
  /\ vpcs' = [vpcs EXCEPT ![i].CidrBlock = c]
  /\ last' = [NoOperation EXCEPT !.op = "ModifyVpc"]
  /\ UNCHANGED <<callers, ctxDone, waited, clusterID, subnets, secGroups, pc, op,
                 foundVPC, subs, foundSecGroup, calls, started, nCreated>>

\* at any time a subnet of the cluster's VPC may come to be listed
CreateSubnet(v) ==
  /\ Len(subnets) < MaxSubnets
  /\ CanonicalVpc # NilVpc
  /\ v = CanonicalVpc.VpcId
  /\ subnets' = Append(subnets, [SubnetId |-> Len(subnets) + 1, VpcId |-> v,
                                 Tags |-> <<>>])
  /\ UNCHANGED <<callers, ctxDone, waited, clusterID, vpcs, secGroups, pc, op,
                 foundVPC, subs, foundSecGroup, calls, started, last, nCreated>>

\* ------------------------------------------------------------- specifications
Next ==
  \/ \E p \in Procs, idOk \in BOOLEAN, nameOk \in BOOLEAN :
       SetupSecurityGroupBegin(p, idOk, nameOk)
  \/ \E p \in Procs, listOk \in BOOLEAN, idOk \in BOOLEAN : SetupGetCidr(p, listOk, idOk)
  \/ \E p \in Procs, listOk \in BOOLEAN : SetupGetSecurityGroup(p, listOk)
  \/ \E p \in Procs, ok \in BOOLEAN : SetupCreateSecurityGroup(p, ok)
  \/ \E p \in Procs, ok \in BOOLEAN : SetupAuthorizeIngress(p, ok)
  \/ \E p \in Procs, listOk \in BOOLEAN, idOk \in BOOLEAN : GetCidrCall(p, listOk, idOk)
  \/ \E p \in Procs, pollOk \in BOOLEAN : GetVPCSubnetsBegin(p, pollOk)
  \/ \E p \in Procs, listOk \in BOOLEAN, idOk \in BOOLEAN :
       GetVPCSubnetsFilter(p, listOk, idOk)
  \/ \E i \in 1..MaxVpcs, c \in VpcCidrs : ModifyVpcCidr(i, c)

Spec == Init /\ [][Next]_vars

\* two callers converging the same identity, their invocations overlapping
ConcNext ==
  \/ \E p \in Procs, idOk \in BOOLEAN, nameOk \in BOOLEAN :
       SetupSecurityGroupBegin(p, idOk, nameOk)
  \/ \E p \in Procs, listOk \in BOOLEAN, idOk \in BOOLEAN : SetupGetCidr(p, listOk, idOk)
  \/ \E p \in Procs, listOk \in BOOLEAN : SetupGetSecurityGroup(p, listOk)
  \/ \E p \in Procs, ok \in BOOLEAN : SetupCreateSecurityGroup(p, ok)
  \/ \E p \in Procs, ok \in BOOLEAN : SetupAuthorizeIngress(p, ok)

ConcSpec == ConcInit /\ [][ConcNext]_vars

\* SetupSecurityGroup invoked again and again by one caller, the provider and
\* the collaborators never failing, every started step taken
LiveNext ==
  \E p \in Procs :
    \/ SetupSecurityGroupBegin(p, TRUE, TRUE)
    \/ SetupGetCidr(p, TRUE, TRUE)
    \/ SetupGetSecurityGroup(p, TRUE)
    \/ SetupCreateSecurityGroup(p, TRUE)
    \/ SetupAuthorizeIngress(p, TRUE)

LiveSpec == Init /\ [][LiveNext]_vars /\ WF_vars(LiveNext)

\* the locator operations, invoked one after the other by one caller
LocNext ==
  \/ \E p \in Procs, listOk \in BOOLEAN, idOk \in BOOLEAN : GetCidrCall(p, listOk, idOk)
  \/ \E p \in Procs, pollOk \in BOOLEAN : GetVPCSubnetsBegin(p, pollOk)
  \/ \E p \in Procs, listOk \in BOOLEAN, idOk \in BOOLEAN :
       GetVPCSubnetsFilter(p, listOk, idOk)
  \/ \E p \in Procs, pollOk \in BOOLEAN, listOk \in BOOLEAN, idOk \in BOOLEAN :
       GetAllSubnetIDS(p, pollOk, listOk, idOk)
  \/ \E p \in Procs, pollOk \in BOOLEAN, listOk \in BOOLEAN, idOk \in BOOLEAN :
       GetPrivateSubnetIDS(p, pollOk, listOk, idOk)

LocSpec == LocInit /\ [][LocNext]_vars

\* a step of the subnet poll: the next interval, or the end of the budget
getSubnetsStep ==
  \E p \in Procs :
    \/ \E ok \in BOOLEAN : getSubnetsTick(p, ok)
    \/ \E again \in BOOLEAN, ok \in BOOLEAN : getSubnetsTimeout(p, again, ok)

\* GetVPCSubnets with its subnet poll step by step, while subnets come to be
\* listed
PollNext ==
  \/ \E p \in Procs, done \in BOOLEAN, ok \in BOOLEAN : GetVPCSubnetsPoll(p, done, ok)
  \/ \E p \in Procs, ok \in BOOLEAN : getSubnetsTick(p, ok)
  \/ \E p \in Procs, again \in BOOLEAN, ok \in BOOLEAN : getSubnetsTimeout(p, again, ok)
  \/ \E p \in Procs, listOk \in BOOLEAN, idOk \in BOOLEAN :
       GetVPCSubnetsFilter(p, listOk, idOk)
  \/ \E v \in 1..MaxVpcs : CreateSubnet(v)

\* time passes: a poll that is waiting takes its next step
PollSpec == PollInit /\ [][PollNext]_vars /\ WF_vars(getSubnetsStep)

\* ------------------------------------------------------------- properties
CallsOf(r, api) == {i \in 1..Len(r.calls) : r.calls[i].api = api}

NoMutating(r) == \A i \in 1..Len(r.calls) : ~Mutating(r.calls[i])

Succeeded(r) == r.op = "SetupSecurityGroup" /\ r.err = NoError

\* the invocation listed the groups and found none of the derived name
AbsentObserved(r) ==
  /\ r.op = "SetupSecurityGroup"
  /\ r.sg = NilGroup
  /\ \E i \in CallsOf(r, "DescribeSecurityGroups") : r.calls[i].ok

\* the invocation found a group of the derived name
PresentObserved(r) == r.op = "SetupSecurityGroup" /\ r.sg # NilGroup

RootCause(err) == err[Len(err)]

\* C1, as stated: of two successful SetupSecurityGroup invocations in
\* sequence, the provider unchanged between them but for the first one's
\* effects, the second issues no CreateSecurityGroup and no
\* AuthorizeSecurityGroupIngress call.
C1_SecondInvocationIdle ==
  (Succeeded(last) /\ last.started.after \in {"created", "settled"})
    => NoMutating(last)

\* C1, amended: the second invocation issues no CreateSecurityGroup call; it
\* issues no mutating call at all when the first one created no group, and
\* exactly one AuthorizeSecurityGroupIngress call when the first one created
\* the group.
C1_SecondInvocation ==
  (Succeeded(last) /\ last.started.after \in {"created", "settled"})
    => /\ CallsOf(last, "CreateSecurityGroup") = {}
       /\ last.started.after = "settled" => NoMutating(last)
       /\ last.started.after = "created" =>
            Cardinality(CallsOf(last, "AuthorizeSecurityGroupIngress")) = 1

\* a third invocation, after the create and the authorize, that does nothing
C1_Witness ==
  /\ Succeeded(last)
  /\ last.started.after = "settled"
  /\ nCreated = 1
  /\ NoMutating(last)

\* C2: invoked again and again without failures and with the VPCs unchanged,
\* SetupSecurityGroup brings the provider to the converged posture whenever
\* the cluster VPC exists; two successful invocations in sequence suffice; and
\* the posture, once converged, stays converged.
C2_Converges ==
  /\ (CanonicalVpc # NilVpc) ~> Converged
  /\ []((Succeeded(last) /\ last.started.after \in {"created", "settled"}) => Converged)
  /\ [][Converged => Converged']_vars

\* converged by a create and then an authorize
C2_Witness ==
  /\ Converged
  /\ nCreated = 1
  /\ Succeeded(last)
  /\ last.started.after = "created"

\* C3: an invocation that starts when the posture is converged issues no
\* CreateSecurityGroup and no AuthorizeSecurityGroupIngress call.
C3_NoRepeat ==
  /\ (last.op = "SetupSecurityGroup" /\ last.started.converged) => NoMutating(last)
  /\ \A p \in Procs :
       started[p].converged =>
         pc[p] \notin {"CreateSecurityGroup", "AuthorizeSecurityGroupIngress"}

\* an invocation that started converged has looked the group up and returned,
\* the group holding another permission besides the desired one
C3_Witness ==
  /\ Succeeded(last)
  /\ last.started.converged
  /\ CallsOf(last, "DescribeSecurityGroups") # {}
  /\ Len(last.sg.IpPermissions) = 2

\* C4: an invocation that finds no group of the derived name issues exactly
\* one CreateSecurityGroup call, naming the derived name and the cluster VPC,
\* issues no AuthorizeSecurityGroupIngress call, and succeeds if and only if
\* the create succeeds; the create is issued only while no such group exists.
C4_CreateOnly ==
  /\ \A p \in Procs : pc[p] = "CreateSecurityGroup" => Named = {}
  /\ \A p \in Procs : pc[p] = "AuthorizeSecurityGroupIngress" => Named # {}
  /\ (last.op = "SetupSecurityGroup" /\ Created(last)) => AbsentObserved(last)
  /\ AbsentObserved(last) =>
       LET creates == CallsOf(last, "CreateSecurityGroup")
       IN /\ Cardinality(creates) = 1
          /\ \A i \in creates :
               /\ last.calls[i].GroupName = SecName
               /\ last.calls[i].VpcId = CanonicalVpc.VpcId
               /\ last.calls[i].ok <=> last.err = NoError
               /\ last.calls[i].ok =>
                    /\ NamedGroup.VpcId = CanonicalVpc.VpcId
                    /\ NamedGroup.IpPermissions = <<>>
          /\ CallsOf(last, "AuthorizeSecurityGroupIngress") = {}

\* a group was created in the second VPC of the listing
C4_Witness ==
  /\ AbsentObserved(last)
  /\ last.err = NoError
  /\ NamedGroup.VpcId = 2

\* C5: an invocation that finds the group of the derived name issues an
\* AuthorizeSecurityGroupIngress call if and only if no permission of the group
\* equals the wanted one field by field; the call is the only one, names the
\* group found and carries the wanted permission alone, which the provider
\* adds after the permissions the group had.
C5_AuthorizeIff ==
  PresentObserved(last) =>
    LET want == WantedPermission(CanonicalVpc.CidrBlock)
        auth == CallsOf(last, "AuthorizeSecurityGroupIngress")
        had == last.sg.IpPermissions
    IN /\ last.sg.GroupName = SecName
       /\ last.sg.GroupId = NamedGroup.GroupId
       /\ auth # {} <=> \A j \in 1..Len(had) : had[j] # want
       /\ Cardinality(auth) <= 1
       /\ \A i \in auth :
            /\ last.calls[i].GroupId = last.sg.GroupId
            /\ last.calls[i].IpPermissions = <<want>>
            /\ last.calls[i].ok => NamedGroup.IpPermissions = had \o <<want>>
       /\ CallsOf(last, "CreateSecurityGroup") = {}

\* the group held a permission for both ranges, the wanted range among them,
\* and the wanted permission was authorized next to it
C5_Witness ==
  /\ PresentObserved(last)
  /\ last.err = NoError
  /\ CallsOf(last, "AuthorizeSecurityGroupIngress") # {}
  /\ last.sg.IpPermissions = <<IpPermission("-1", <<CidrA, CidrB>>, <<>>)>>

\* C6: no step removes a group, changes a group's identity or drops one of
\* its permissions.
C6_NothingRemoved ==
  [][/\ Len(secGroups') >= Len(secGroups)
     /\ \A i \in 1..Len(secGroups) :
          /\ secGroups'[i].GroupId = secGroups[i].GroupId
          /\ secGroups'[i].GroupName = secGroups[i].GroupName
          /\ secGroups'[i].VpcId = secGroups[i].VpcId
          /\ \A j \in 1..Len(secGroups[i].IpPermissions) :
               \E k \in 1..Len(secGroups'[i].IpPermissions) :
                 secGroups'[i].IpPermissions[k] = secGroups[i].IpPermissions[j]]_vars

\* the created group was authorized twice, the VPC's CIDR block having changed
\* in between
C6_Witness ==
  /\ nCreated = 1
  /\ Succeeded(last)
  /\ CallsOf(last, "AuthorizeSecurityGroupIngress") # {}
  /\ Len(NamedGroup.IpPermissions) = 2

\* C7: invocations running one after the other create the group at most once,
\* and a create call is issued only while no group of the derived name exists.
C7_CreatedOnce ==
  /\ nCreated <= 1
  /\ nCreated = 1 => Cardinality(Named) = 1
  /\ \A p \in Procs : pc[p] = "CreateSecurityGroup" => Named = {}

\* after the create, a later invocation found the group
C7_Witness ==
  /\ nCreated = 1
  /\ Succeeded(last)
  /\ last.sg # NilGroup

\* C8: with two overlapping invocations, each invocation lists the groups at
\* most once and issues at most one create call, and only after it has found
\* no group of the derived name.
C8_OneCreatePerObservation ==
  /\ Cardinality(CallsOf(last, "CreateSecurityGroup")) <= 1
  /\ Cardinality(CallsOf(last, "DescribeSecurityGroups")) <= 1
  /\ (last.op = "SetupSecurityGroup" /\ Created(last)) => AbsentObserved(last)
  /\ \A p \in Procs :
       /\ \A i \in 1..Len(calls[p]) : ~Mutating(calls[p][i])
       /\ pc[p] = "CreateSecurityGroup" =>
            /\ calls[p][Len(calls[p])].api = "DescribeSecurityGroups"
            /\ calls[p][Len(calls[p])].ok

\* both callers found the group absent and both created it
C8_Witness ==
  /\ callers = Procs
  /\ nCreated = 2
  /\ Cardinality(Named) = 2

\* C9: the VPC getVpc returns is the last VPC of the listing that carries a
\* tag of value "<clusterID>-vpc"; no other VPC is ever returned.
C9_LastMatchWins ==
  /\ \A p \in Procs :
       foundVPC[p] # NilVpc =>
         /\ Matching # {}
         /\ foundVPC[p].VpcId = vpcs[Max(Matching)].VpcId
         /\ foundVPC[p].CidrBlock = vpcs[Max(Matching)].CidrBlock
  /\ (last.op = "GetCidr" /\ last.err = NoError) =>
       /\ Matching # {}
       /\ last.val = <<vpcs[Max(Matching)].VpcId, vpcs[Max(Matching)].CidrBlock>>
  /\ (last.op = "GetVPCSubnets" /\ last.err = NoError) =>
       /\ Matching # {}
       /\ \A i \in 1..Len(last.val) : last.val[i].VpcId = vpcs[Max(Matching)].VpcId

\* two VPCs match and GetCidr returned the second
C9_Witness ==
  /\ last.op = "GetCidr"
  /\ last.err = NoError
  /\ Cardinality(Matching) = 2
  /\ last.val[1] = 2

\* C10: while no VPC carries the tag, GetCidr, GetVPCSubnets and
\* SetupSecurityGroup fail, with "no vpc found" whenever the listing and the
\* cluster id were obtained; SetupSecurityGroup never reaches the group lookup,
\* issues no mutating call and leaves the groups as they were.
C10_NoFallback ==
  /\ [](Matching = {} =>
          /\ last.op \in {"GetCidr", "GetVPCSubnets", "SetupSecurityGroup"} =>
               /\ last.err # NoError
               /\ NoMutating(last)
               /\ CallsOf(last, "DescribeSecurityGroups") = {}
               /\ (/\ \E i \in CallsOf(last, "DescribeVpcs") : last.calls[i].ok
                   /\ RootCause(last.err) # RootCause(ErrClusterID))
                    => RootCause(last.err) = "error, no vpc found"
          /\ \A p \in Procs :
               /\ foundVPC[p] = NilVpc
               /\ pc[p] \in {"idle", "GetCidr", "getVpc"}
          /\ nCreated = 0)
  /\ [][Matching = {} => secGroups' = secGroups /\ subnets' = subnets]_vars

\* VPCs are listed, none matches, and SetupSecurityGroup failed with not found
C10_Witness ==
  /\ Matching = {}
  /\ Len(vpcs) = MaxVpcs
  /\ last.op = "SetupSecurityGroup"
  /\ RootCause(last.err) = "error, no vpc found"

\* the subnets of the listing the cluster VPC owns, in listing order
Owned == SelectSeq(subnets, LAMBDA sub : sub.VpcId = CanonicalVpc.VpcId)

\* every provider call of the operation was served
AllServed(r) == \A i \in 1..Len(r.calls) : r.calls[i].ok

\* C11: GetVPCSubnets, when it succeeds, returns exactly the subnets of the
\* listing that the cluster VPC owns, in listing order, and at least one; when
\* the cluster VPC owns no subnet of the listing it fails, with "unable to
\* find subnets" whenever the listings and the cluster id were obtained.
C11_AssociatedSubnets ==
  last.op = "GetVPCSubnets" =>
    /\ last.err = NoError => (last.val = Owned /\ last.val # <<>>)
    /\ (CanonicalVpc = NilVpc \/ Owned = <<>>) => (last.err # NoError /\ last.val = <<>>)
    /\ (/\ CanonicalVpc # NilVpc
        /\ Owned = <<>>
        /\ AllServed(last)
        /\ Len(last.calls) = 2
        /\ RootCause(last.err) # RootCause(ErrClusterID))
         => last.err = New("error, unable to find subnets associated with cluster vpc")

\* of two subnets listed, the second alone is owned by the cluster VPC and
\* is returned
C11_Witness ==
  /\ last.op = "GetVPCSubnets"
  /\ last.err = NoError
  /\ Len(subnets) = 2
  /\ Len(last.val) = 1
  /\ last.val[1].SubnetId = 2

\* the value holds "private" as a word of its own: no word character right
\* before it or right after it
WholeWordPrivate(v) ==
  LET n == Len("private")
  IN \E k \in 1..(Len(v) - n + 1) :
       /\ SubSeq(v, k, k + n - 1) = "private"
       /\ ~(k > 1 /\ SubSeq(v, k - 1, k - 1) \in WordChars)
       /\ ~(k + n <= Len(v) /\ SubSeq(v, k + n, k + n) \in WordChars)

\* the ids of the cluster VPC's subnets that carry such a tag value
Qualifying ==
  {Owned[i].SubnetId : i \in {j \in 1..Len(Owned) :
     \E t \in 1..Len(Owned[j].Tags) : WholeWordPrivate(Owned[j].Tags[t].Value)}}

Ids(r) == {r.val[i] : i \in 1..Len(r.val)}

\* C12: GetPrivateSubnetIDS, when it succeeds, returns the id of a subnet of
\* the cluster VPC if and only if one of the subnet's tag values holds
\* "private" as a whole word; it fails when no subnet qualifies.
C12_PrivateIffWholeWord ==
  last.op = "GetPrivateSubnetIDS" =>
    /\ last.err = NoError => Ids(last) = Qualifying
    /\ Qualifying = {} => last.err # NoError

\* C18: the list GetPrivateSubnetIDS returns holds each subnet id at most
\* once.
C18_EachIdOnce ==
  last.op = "GetPrivateSubnetIDS" =>
    \A i \in 1..Len(last.val) : \A j \in 1..Len(last.val) :
      last.val[i] = last.val[j] => i = j

\* the list calls of a sequence of provider calls, by position
ListCalls(cs) == {i \in 1..Len(cs) : cs[i].api = "DescribeSubnets"}

Polling(p) == op[p] = "GetVPCSubnets" /\ pc[p] = "poll"

\* C13: every poll of getSubnets ends; while it goes on, the list call has
\* been made once at the start and once for each 5-second interval waited,
\* within the 5-minute budget; when every list call fails the poll ends only
\* when the budget has run out, no less than one interval after the start,
\* after a bounded number of calls, with the timeout error and no items.
C13_PollTerminates ==
  /\ \A p \in Procs : Polling(p) ~> ~Polling(p)
  /\ [](\A p \in Procs :
          Polling(p) =>
            /\ waited[p] <= PollTimeout
            /\ Cardinality(ListCalls(calls[p])) = waited[p] \div PollInterval + 1
            /\ \A i \in ListCalls(calls[p]) : ~calls[p][i].ok)
  /\ [][\A p \in Procs :
          (Polling(p) /\ pc'[p] = "idle") =>
            /\ waited'[p] = PollTimeout
            /\ waited'[p] >= PollInterval
            /\ last'.op = "GetVPCSubnets"
            /\ last'.err = Wrap(ErrWaitTimeout, "error getting subnets")
            /\ last'.val = <<>>
            /\ \A i \in 1..Len(last'.calls) : ~last'.calls[i].ok
            /\ Cardinality(ListCalls(last'.calls)) <= PollTimeout \div PollInterval + 2]_vars

\* every list call has failed for the whole budget and the timeout error
\* was returned
C13_Witness ==
  /\ last.op = "GetVPCSubnets"
  /\ last.err = Wrap(ErrWaitTimeout, "error getting subnets")
  /\ Cardinality(ListCalls(last.calls)) > PollTimeout \div PollInterval
  /\ waited[1] = PollTimeout

\* C14: failed list calls of the poll are not reported; the first list call
\* that is served ends the poll: getSubnets returns the listing of that very
\* call, no list call follows it, and the operation goes on to the VPC lookup
\* without an error from the poll.
C14_FirstSuccessStops ==
  /\ [][\A p \in Procs :
          (op'[p] = "GetVPCSubnets" /\ pc'[p] = "getVpc" /\ pc[p] # "getVpc") =>
            LET cs == calls'[p]
            IN /\ subs'[p] = subnets
               /\ ListCalls(cs) = 1..Len(cs)
               /\ cs[Len(cs)].ok
               /\ \A i \in 1..(Len(cs) - 1) : ~cs[i].ok
               /\ Len(cs) = Len(calls[p]) + 1]_vars
  /\ [](\A p \in Procs :
          \A i \in ListCalls(calls[p]) :
            calls[p][i].ok =>
              /\ pc[p] = "getVpc"
              /\ \A j \in ListCalls(calls[p]) : j <= i)
  /\ [](last.op = "GetVPCSubnets" =>
          /\ \A i \in ListCalls(last.calls) :
               last.calls[i].ok => \A j \in ListCalls(last.calls) : j <= i
          /\ (\E i \in ListCalls(last.calls) : last.calls[i].ok)
               => last.err # Wrap(ErrWaitTimeout, "error getting subnets")
          /\ (\A i \in ListCalls(last.calls) : ~last.calls[i].ok)
               => last.err = Wrap(ErrWaitTimeout, "error getting subnets"))

\* two list calls failed, a subnet came to be listed, the third call was
\* served and GetVPCSubnets returned that subnet
C14_Witness ==
  /\ last.op = "GetVPCSubnets"
  /\ last.err = NoError
  /\ Cardinality(ListCalls(last.calls)) = 3
  /\ Len(last.val) = 1
  /\ waited[1] = 2 * PollInterval

\* C15: when the context passed to GetVPCSubnets is already done as the poll
\* begins, the operation waits no full interval and makes no further list
\* call.
C15_DoneContextFailsAtOnce ==
  \A p \in Procs :
    (op[p] = "GetVPCSubnets" /\ ctxDone[p]) =>
      /\ waited[p] < PollInterval
      /\ Cardinality(ListCalls(calls[p])) <= 1

LocatorOps ==
  {"GetCidr", "GetVPCSubnets", "GetAllSubnetIDS", "GetPrivateSubnetIDS"}

ReadOnlyCalls(cs) ==
  \A i \in 1..Len(cs) : cs[i].api \in {"DescribeVpcs", "DescribeSubnets"}

\* C16: the locator operations, whether they succeed or fail, issue only
\* DescribeVpcs and DescribeSubnets calls, and no step of theirs changes the
\* provider's VPCs, subnets or security groups.
C16_ReadOnly ==
  /\ [](last.op \in LocatorOps => ReadOnlyCalls(last.calls))
  /\ [](\A p \in Procs : op[p] \in LocatorOps => ReadOnlyCalls(calls[p]))
  /\ [][vpcs' = vpcs /\ subnets' = subnets /\ secGroups' = secGroups]_vars

\* GetAllSubnetIDS returned the ids of the listing's subnets, one of them owned
\* by another VPC than the cluster's
C16_Witness ==
  /\ last.op = "GetAllSubnetIDS"
  /\ last.err = NoError
  /\ Len(last.calls) = 2
  /\ Len(last.val) < Len(subnets)

\* no provider API is called twice
EachApiOnce(cs) ==
  \A i \in 1..Len(cs) : \A j \in 1..Len(cs) : cs[i].api = cs[j].api => i = j

\* C17: within one SetupSecurityGroup invocation each of DescribeVpcs,
\* DescribeSecurityGroups, CreateSecurityGroup and
\* AuthorizeSecurityGroupIngress is called at most once; a call that fails is
\* the invocation's last call and the invocation returns an error; a failure
\* of any other step (cluster id, name, no VPC found) is returned before the
\* group listing and before any mutating call.
C17_NoRetry ==
  /\ \A p \in Procs :
       op[p] = "SetupSecurityGroup" =>
         /\ EachApiOnce(calls[p])
         /\ \A i \in 1..Len(calls[p]) : calls[p][i].ok
  /\ last.op = "SetupSecurityGroup" =>
       /\ EachApiOnce(last.calls)
       /\ \A i \in 1..Len(last.calls) : ~last.calls[i].ok => i = Len(last.calls)
       /\ last.err = NoError <=> (AllServed(last) /\ CallsOf(last, "DescribeSecurityGroups") # {})
       /\ (last.err # NoError /\ AllServed(last)) =>
            /\ NoMutating(last)
            /\ CallsOf(last, "DescribeSecurityGroups") = {}
       /\ (\E i \in 1..Len(last.calls) : ~last.calls[i].ok /\ ~Mutating(last.calls[i]))
            => NoMutating(last)

\* the VPC and the group were looked up, the authorize call failed and was
\* the last call
C17_Witness ==
  /\ last.op = "SetupSecurityGroup"
  /\ last.err # NoError
  /\ Len(last.calls) = 3
  /\ last.calls[3].api = "AuthorizeSecurityGroupIngress"
  /\ ~last.calls[3].ok

\* C19: the group SetupSecurityGroup authorizes, or finds converged, is owned
\* by the cluster VPC.
C19_GroupOfClusterVpc ==
  PresentObserved(last) => last.sg.VpcId = CanonicalVpc.VpcId

====
